---- MODULE Spec2Model ----
(***************************************************************************)
(* Model of the two review-hub audio generators,                           *)
(*   extensions/review-hub/python/generate_bark.py  (gen = "bark")         *)
(*   extensions/review-hub/python/generate_dia.py   (gen = "dia")          *)
(*                                                                         *)
(* Representation choices.                                                 *)
(*  - A Python str is a sequence of one-character strings; None is the     *)
(*    one-element sequence <<"None">>, which is no character sequence.     *)
(*  - A numpy sample array is a sequence of runs [src, n, unit]: n samples *)
(*    that came from src ("gap" = silence_gap, "pause" = the 0.5 s pause   *)
(*    zeros, "tts" = samples returned by the model).  unit is the 1-based  *)
(*    position of the script unit that produced the run (0 for the gap).   *)
(*    len(array) is the sum of n; sample amplitudes are not represented.   *)
(*  - Times (current_time, startTime, endTime) are exact rationals stored  *)
(*    as an integer number of ticks, 1000 * sample_rate ticks per second,  *)
(*    so len/sample_rate seconds is len*1000 ticks and gap_ms/1000 seconds *)
(*    is gap_ms*sample_rate ticks.  Binary floating-point rounding of the  *)
(*    Python floats is not represented.                                    *)
(*  - generation_times is represented by its length; the wall-clock values *)
(*    only feed the ETA number, kept as "None" / "num".                    *)
(*  - The per-unit WARNING lines on stderr are not represented; err holds  *)
(*    the fatal diagnostic of the run.                                     *)
(*  - Every unit of a script carries all its fields; the defaults of       *)
(*    segment.get(...) are not exercised.                                  *)
(***************************************************************************)
EXTENDS Integers, Sequences, FiniteSets, TLC

VARIABLES gen, segments, gap_ms, pc, i, all_audio, timestamps, current_time,
          current_section_id, section_start_time, generation_times,
          out, err, wav_file, ts_file, exit_code,
          pt_text, pt_direction, pt_result, pt_pc

vars == <<gen, segments, gap_ms, pc, i, all_audio, timestamps, current_time,
          current_section_id, section_start_time, generation_times,
          out, err, wav_file, ts_file, exit_code,
          pt_text, pt_direction, pt_result, pt_pc>>

genVars == <<gen, segments, gap_ms, pc, i, all_audio, timestamps, current_time,
             current_section_id, section_start_time, generation_times,
             out, err, wav_file, ts_file, exit_code>>

ptVars == <<pt_text, pt_direction, pt_result, pt_pc>>

(* ---------------------------- bounds ---------------------------------- *)

(* most units (segments or chunks) in a script *)
MaxUnits == 2

(* most samples the TTS model returns for one unit *)
MaxLen == 1

(* the non-zero gapMs a script may carry *)
MaxGapMs == 1

(* longest text handed to process_text on its own *)
MaxTextLen == 2

(* ------------------------- program constants -------------------------- *)

BARK_SAMPLE_RATE == 24000

DIA_SAMPLE_RATE == 44100

PAUSE_HALF_DENOM == 2

None == <<"None">>

(* ------------------------------ strings ------------------------------- *)

UpperChars == <<"A","B","C","D","E","F","G","H","I","J","K","L","M",
                "N","O","P","Q","R","S","T","U","V","W","X","Y","Z">>

LowerChars == <<"a","b","c","d","e","f","g","h","i","j","k","l","m",
                "n","o","p","q","r","s","t","u","v","w","x","y","z">>

LowerChar(c) ==
    IF \E k \in 1..26 : UpperChars[k] = c
    THEN LowerChars[CHOOSE k \in 1..26 : UpperChars[k] = c]
    ELSE c

lower(s) == [k \in 1..Len(s) |-> LowerChar(s[k])]

IsSpace(c) == c = " "

RECURSIVE lstrip(_)
lstrip(s) == IF s # <<>> /\ IsSpace(Head(s)) THEN lstrip(Tail(s)) ELSE s

RECURSIVE rstrip(_)
rstrip(s) ==
    IF s # <<>> /\ IsSpace(s[Len(s)]) THEN rstrip(SubSeq(s, 1, Len(s) - 1)) ELSE s

strip(s) == rstrip(lstrip(s))

(* str truthiness: None and "" are falsy *)
Truthy(s) == s # None /\ s # <<>>

K_laughs == <<"l","a","u","g","h","s">>

K_laughter == <<"l","a","u","g","h","t","e","r">>

K_pauses == <<"p","a","u","s","e","s">>

K_pause == <<"p","a","u","s","e">>

K_sighs == <<"s","i","g","h","s">>

K_sigh == <<"s","i","g","h">>

K_gasps == <<"g","a","s","p","s">>

K_gasp == <<"g","a","s","p">>

T_laughter == <<"[","l","a","u","g","h","t","e","r","]">>

T_sighs == <<"[","s","i","g","h","s","]">>

T_gasps == <<"[","g","a","s","p","s","]">>

EMOTION_KEYS ==
    {K_laughs, K_laughter, K_pauses, K_pause, K_sighs, K_sigh, K_gasps, K_gasp}

EMOTION_MAP ==
    [k \in EMOTION_KEYS |->
        CASE k = K_laughs   -> T_laughter
          [] k = K_laughter -> T_laughter
          [] k = K_pauses   -> <<>>
          [] k = K_pause    -> <<>>
          [] k = K_sighs    -> T_sighs
          [] k = K_sigh     -> T_sighs
          [] k = K_gasps    -> T_gasps
          [] k = K_gasp     -> T_gasps]

(* dict.get(key, default) *)
EMOTION_MAP_get(key, default) ==
    IF key \in EMOTION_KEYS THEN EMOTION_MAP[key] ELSE default

process_text_nolower(text, direction) ==
    IF Truthy(direction)
    THEN LET bark_token == EMOTION_MAP_get(direction, <<>>)
         IN  IF bark_token # <<>> THEN bark_token \o <<" ">> \o text ELSE text
    ELSE text

process_text(text, direction) ==
    IF Truthy(direction)
    THEN LET bark_token == EMOTION_MAP_get(lower(direction), <<>>)
         IN  IF bark_token # <<>> THEN bark_token \o <<" ">> \o text ELSE text
    ELSE text

(* direction and direction.lower() in ("pauses", "pause") *)
IsPauseDirection(direction) ==
    Truthy(direction) /\ lower(direction) \in {K_pauses, K_pause}

(* ------------------------------- audio -------------------------------- *)

Run(src, n, unit) == [src |-> src, n |-> n, unit |-> unit]

RECURSIVE ArrayLen(_)
ArrayLen(a) == IF a = <<>> THEN 0 ELSE Head(a).n + ArrayLen(Tail(a))

RECURSIVE concatenate(_)
concatenate(arrays) ==
    IF arrays = <<>> THEN <<>> ELSE Head(arrays) \o concatenate(Tail(arrays))

sample_rate_of(g) == IF g = "bark" THEN BARK_SAMPLE_RATE ELSE DIA_SAMPLE_RATE

(* int(sample_rate * gap_ms / 1000) *)
gap_samples(sample_rate, ms) == (sample_rate * ms) \div 1000

silence_gap(sample_rate, ms) == <<Run("gap", gap_samples(sample_rate, ms), 0)>>

(* gap_ms / 1000 seconds, in ticks *)
GapTime(sample_rate, ms) == ms * sample_rate

(* len(audio) / sample_rate seconds, in ticks *)
Duration(len) == len * 1000

(* int(sample_rate * 0.5) *)
pause_samples(sample_rate) == sample_rate \div PAUSE_HALF_DENOM

(* what a call of the TTS model can do: raise, return None, or return an
   array of n >= 0 samples *)
Outcomes ==
    {[kind |-> "raise", n |-> 0], [kind |-> "None", n |-> 0]}
      \cup {[kind |-> "array", n |-> n] : n \in 0..MaxLen}

(* ------------------------------ scripts ------------------------------- *)

SectionIds == {<<"a">>, <<"b">>}

T_hi == <<"h","i">>

Texts == {<<>>, T_hi}

D_Pause == <<"P","a","u","s","e">>

Directions == {None, D_Pause, K_laughs}

BarkUnits ==
    [sectionId : SectionIds, text : Texts, direction : Directions]

DiaUnits ==
    [sectionId : SectionIds, text : {T_hi}, direction : {None}]

SeqsUpTo(S, n) == UNION {[1..k -> S] : k \in 0..n}

(* gapMs of the script: no gap, or a gap of MaxGapMs milliseconds *)
GapValues == {0, MaxGapMs}

(* ------------------------------ events -------------------------------- *)

Event(phase, index, sectionId, est) ==
    [phase |-> phase, index |-> index, sectionId |-> sectionId, est |-> est]

emit_progress(stdout, event) == Append(stdout, event)

Absent == [written |-> FALSE, data |-> <<>>]

Written(d) == [written |-> TRUE, data |-> d]

(* ------------------------------- Init --------------------------------- *)

InitLocals ==
    /\ pc = "start"
    /\ i = 0
    /\ all_audio = <<>>
    /\ timestamps = <<>>
    /\ current_time = 0
    /\ current_section_id = None
    /\ section_start_time = 0
    /\ generation_times = 0
    /\ out = <<>>
    /\ err = "none"
    /\ wav_file = Absent
    /\ ts_file = Absent
    /\ exit_code = -1

Init ==
    /\ gen \in {"bark", "dia"}
    /\ segments \in SeqsUpTo(IF gen = "bark" THEN BarkUnits ELSE DiaUnits, MaxUnits)
    /\ gap_ms \in GapValues
    /\ InitLocals
    /\ pt_text = <<>>
    /\ pt_direction = None
    /\ pt_result = None
    /\ pt_pc = "off"

(* ------------------------------ actions ------------------------------- *)

(* emit "loading", import succeeds, model loads, script is read, locals set *)
Load ==
    /\ pc = "start"
    /\ out' = emit_progress(out, Event("loading", -1, None, "None"))
    /\ pc' = "loop"
    /\ UNCHANGED <<gen, segments, gap_ms, i, all_audio, timestamps, current_time,
                   current_section_id, section_start_time, generation_times,
                   err, wav_file, ts_file, exit_code>>
    /\ UNCHANGED ptVars

(* emit "loading", the import raises ImportError: sys.exit(1) *)
LoadFail ==
    /\ pc = "start"
    /\ out' = emit_progress(out, Event("loading", -1, None, "None"))
    /\ err' = "package not found"
    /\ exit_code' = 1
    /\ pc' = "exit"
    /\ UNCHANGED <<gen, segments, gap_ms, i, all_audio, timestamps, current_time,
                   current_section_id, section_start_time, generation_times,
                   wav_file, ts_file>>
    /\ UNCHANGED ptVars

(* a timestamp record, lines 100-104 and 174-178 of generate_bark.py *)
SectionRecord(section_id, start, end) ==
    [sectionId |-> section_id, startTime |-> start, endTime |-> end]

(* "Track section boundaries": close the previous section, append the gap,
   open the new section.  Returns the five locals it assigns. *)
TrackSection(section_id) ==
    IF section_id # current_section_id
    THEN LET closing == current_section_id # None
             now == IF closing
                    THEN current_time + GapTime(sample_rate_of(gen), gap_ms)
                    ELSE current_time
         IN  [timestamps |->
                 IF closing
                 THEN Append(timestamps,
                        SectionRecord(current_section_id, section_start_time, current_time))
                 ELSE timestamps,
              all_audio |->
                 IF closing
                 THEN Append(all_audio, silence_gap(sample_rate_of(gen), gap_ms))
                 ELSE all_audio,
              current_time |-> now,
              current_section_id |-> section_id,
              section_start_time |-> now]
    ELSE [timestamps |-> timestamps, all_audio |-> all_audio,
          current_time |-> current_time,
          current_section_id |-> current_section_id,
          section_start_time |-> section_start_time]

(* the outcome of the try block up to "if audio is not None": whether
   generate_audio was called, whether it raised, whether a generation time
   was appended, and audio (isNone, or the array) *)
TryResult(called, raised, timed, isNone, audio) ==
    [called |-> called, raised |-> raised, timed |-> timed,
     isNone |-> isNone, audio |-> audio]

(* the try block of generate_bark.py for one segment and one behaviour r of
   generate_audio *)
BarkSynthesize(segment, unit, r) ==
    LET sr == sample_rate_of(gen)
        processed_text == process_text(segment.text, segment.direction)
        text_audio == <<Run("tts", r.n, unit)>>
    IN  IF strip(processed_text) = <<>>
        THEN TryResult(FALSE, FALSE, FALSE, TRUE, <<>>)
        ELSE IF IsPauseDirection(segment.direction)
        THEN LET pause == <<Run("pause", pause_samples(sr), unit)>>
             IN  IF strip(segment.text) # <<>>
                 THEN IF r.kind = "raise"
                      THEN TryResult(TRUE, TRUE, FALSE, TRUE, <<>>)
                      ELSE IF r.kind = "None"
                      THEN TryResult(TRUE, FALSE, TRUE, FALSE, pause)
                      ELSE TryResult(TRUE, FALSE, TRUE, FALSE, pause \o text_audio)
                 ELSE TryResult(FALSE, FALSE, TRUE, FALSE, pause)
        ELSE IF r.kind = "raise"
             THEN TryResult(TRUE, TRUE, FALSE, TRUE, <<>>)
             ELSE IF r.kind = "None"
             THEN TryResult(TRUE, FALSE, TRUE, TRUE, <<>>)
             ELSE TryResult(TRUE, FALSE, TRUE, FALSE, text_audio)

(* one iteration of the for loop of generate_bark.py *)
BarkIter ==
    /\ pc = "loop"
    /\ gen = "bark"
    /\ i < Len(segments)
    /\ \E r \in Outcomes :
        LET segment == segments[i + 1]
            section_id == segment.sectionId
            b == TrackSection(section_id)
            est_remaining == IF generation_times > 0 THEN "num" ELSE "None"
            s == BarkSynthesize(segment, i + 1, r)
            keep == ~s.isNone /\ ArrayLen(s.audio) > 0
        IN  /\ out' = emit_progress(out, Event("generating", i, section_id, est_remaining))
            /\ generation_times' = IF s.timed THEN generation_times + 1
                                   ELSE generation_times
            /\ timestamps' = b.timestamps
            /\ current_section_id' = b.current_section_id
            /\ section_start_time' = b.section_start_time
            /\ all_audio' = IF keep THEN Append(b.all_audio, s.audio) ELSE b.all_audio
            /\ current_time' = IF keep
                               THEN b.current_time + Duration(ArrayLen(s.audio))
                               ELSE b.current_time
    /\ i' = i + 1
    /\ UNCHANGED <<gen, segments, gap_ms, pc, err, wav_file, ts_file, exit_code>>
    /\ UNCHANGED ptVars

(* "Close the last section", after the loop of generate_bark.py *)
BarkClose ==
    /\ pc = "loop"
    /\ gen = "bark"
    /\ i = Len(segments)
    /\ timestamps' =
         IF current_section_id # None
         THEN Append(timestamps,
                SectionRecord(current_section_id, section_start_time, current_time))
         ELSE timestamps
    /\ pc' = "check"
    /\ UNCHANGED <<gen, segments, gap_ms, i, all_audio, current_time,
                   current_section_id, section_start_time, generation_times,
                   out, err, wav_file, ts_file, exit_code>>
    /\ UNCHANGED ptVars

DiaRecord_noOffset(section_id, now, duration) ==
    [sectionId |-> section_id, startTime |-> now, endTime |-> duration]

(* the timestamp record of one chunk, lines 75-79 of generate_dia.py *)
DiaRecord(section_id, now, duration) ==
    [sectionId |-> section_id, startTime |-> now, endTime |-> now + duration]

(* one iteration of the for loop of generate_dia.py *)
DiaIter ==
    /\ pc = "loop"
    /\ gen = "dia"
    /\ i < Len(segments)
    /\ \E r \in Outcomes :
        LET chunk == segments[i + 1]
            section_id == chunk.sectionId
            audio == IF r.kind = "array" THEN <<Run("tts", r.n, i + 1)>> ELSE <<>>
            keep == r.kind = "array" /\ ArrayLen(audio) > 0
            duration == Duration(ArrayLen(audio))
            more == i < Len(segments) - 1
        IN  /\ out' = emit_progress(out, Event("generating", i, section_id, "None"))
            /\ timestamps' = IF keep
                             THEN Append(timestamps,
                                    DiaRecord(section_id, current_time, duration))
                             ELSE timestamps
            /\ all_audio' =
                 IF ~keep THEN all_audio
                 ELSE IF more
                 THEN all_audio \o <<audio, silence_gap(sample_rate_of(gen), gap_ms)>>
                 ELSE Append(all_audio, audio)
            /\ current_time' =
                 IF ~keep THEN current_time
                 ELSE IF more
                 THEN current_time + duration + GapTime(sample_rate_of(gen), gap_ms)
                 ELSE current_time + duration
    /\ i' = i + 1
    /\ UNCHANGED <<gen, segments, gap_ms, pc, current_section_id, section_start_time,
                   generation_times, err, wav_file, ts_file, exit_code>>
    /\ UNCHANGED ptVars

(* control has reached "if not all_audio" *)
AtCheck ==
    \/ gen = "bark" /\ pc = "check"
    \/ gen = "dia" /\ pc = "loop" /\ i = Len(segments)

(* "if not all_audio": print the error, sys.exit(1) *)
ZeroAudioExit ==
    /\ AtCheck
    /\ all_audio = <<>>
    /\ err' = "No audio was generated"
    /\ exit_code' = 1
    /\ pc' = "exit"
    /\ UNCHANGED <<gen, segments, gap_ms, i, all_audio, timestamps, current_time,
                   current_section_id, section_start_time, generation_times,
                   out, wav_file, ts_file>>
    /\ UNCHANGED ptVars

(* all_audio is a non-empty list: emit "saving" *)
Saving ==
    /\ AtCheck
    /\ all_audio # <<>>
    /\ out' = emit_progress(out, Event("saving", -1, None, "None"))
    /\ pc' = "saving"
    /\ UNCHANGED <<gen, segments, gap_ms, i, all_audio, timestamps, current_time,
                   current_section_id, section_start_time, generation_times,
                   err, wav_file, ts_file, exit_code>>
    /\ UNCHANGED ptVars

(* np.max(np.abs(combined)) on a zero-size array raises ValueError, which
   nothing catches: the interpreter ends with exit status 1 *)
NormalizeCrash ==
    /\ pc = "saving"
    /\ ArrayLen(concatenate(all_audio)) = 0
    /\ err' = "ValueError"
    /\ exit_code' = 1
    /\ pc' = "exit"
    /\ UNCHANGED <<gen, segments, gap_ms, i, all_audio, timestamps, current_time,
                   current_section_id, section_start_time, generation_times,
                   out, wav_file, ts_file>>
    /\ UNCHANGED ptVars

(* concatenate, normalize, sf.write(output_path, combined, sample_rate) *)
WriteWav ==
    /\ pc = "saving"
    /\ ArrayLen(concatenate(all_audio)) > 0
    /\ wav_file' = Written(concatenate(all_audio))
    /\ pc' = "wav_written"
    /\ UNCHANGED <<gen, segments, gap_ms, i, all_audio, timestamps, current_time,
                   current_section_id, section_start_time, generation_times,
                   out, err, ts_file, exit_code>>
    /\ UNCHANGED ptVars

(* json.dump(timestamps, f) to timestamps.json next to the output *)
WriteTimestamps ==
    /\ pc = "wav_written"
    /\ ts_file' = Written(timestamps)
    /\ pc' = "ts_written"
    /\ UNCHANGED <<gen, segments, gap_ms, i, all_audio, timestamps, current_time,
                   current_section_id, section_start_time, generation_times,
                   out, err, wav_file, exit_code>>
    /\ UNCHANGED ptVars

Done_beforeWrites ==
    /\ pc \in {"saving", "ts_written"}
    /\ out' = emit_progress(out, Event("done", -1, None, "None"))
    /\ exit_code' = 0
    /\ pc' = "exit"
    /\ UNCHANGED <<gen, segments, gap_ms, i, all_audio, timestamps, current_time,
                   current_section_id, section_start_time, generation_times,
                   err, wav_file, ts_file>>
    /\ UNCHANGED ptVars

(* emit "done", print the summary, return: exit status 0 *)
Done ==
    /\ pc = "ts_written"
    /\ out' = emit_progress(out, Event("done", -1, None, "None"))
    /\ exit_code' = 0
    /\ pc' = "exit"
    /\ UNCHANGED <<gen, segments, gap_ms, i, all_audio, timestamps, current_time,
                   current_section_id, section_start_time, generation_times,
                   err, wav_file, ts_file>>
    /\ UNCHANGED ptVars

Next ==
    \/ Load
    \/ LoadFail
    \/ BarkIter
    \/ BarkClose
    \/ DiaIter
    \/ ZeroAudioExit
    \/ Saving
    \/ NormalizeCrash
    \/ WriteWav
    \/ WriteTimestamps
    \/ Done

Spec == Init /\ [][Next]_vars

(* ------------------- process_text as a pure function ------------------ *)

TextChars == {" ", "h", "["}

PTTexts == SeqsUpTo(TextChars, MaxTextLen)

Capitalized(s) == [k \in 1..Len(s) |-> IF k = 1 THEN UpperChars[CHOOSE j \in 1..26 : LowerChars[j] = s[1]] ELSE s[k]]

AllUpper(s) == [k \in 1..Len(s) |-> UpperChars[CHOOSE j \in 1..26 : LowerChars[j] = s[k]]]

D_whispers == <<"w","h","i","s","p","e","r","s">>

D_laugh == <<"l","a","u","g","h">>

D_pause_sp == <<" ","p","a","u","s","e">>

PTDirections ==
    {None, <<>>, D_whispers, D_laugh, D_pause_sp}
      \cup EMOTION_KEYS
      \cup {Capitalized(k) : k \in EMOTION_KEYS}
      \cup {AllUpper(k) : k \in EMOTION_KEYS}

PTInit ==
    /\ gen = "bark"
    /\ segments = <<>>
    /\ gap_ms = 0
    /\ InitLocals
    /\ pt_text \in PTTexts
    /\ pt_direction \in PTDirections
    /\ pt_result = None
    /\ pt_pc = "call"

(* result = process_text(text, direction) *)
PTCall ==
    /\ pt_pc = "call"
    /\ pt_result' = process_text(pt_text, pt_direction)
    /\ pt_pc' = "returned"
    /\ UNCHANGED <<pt_text, pt_direction>>
    /\ UNCHANGED genVars

PTNext == PTCall

PTSpec == PTInit /\ [][PTNext]_vars

(* ======================= properties of the runs ======================= *)

Flat == concatenate(all_audio)

LoopFinished == pc # "start" /\ i = Len(segments) /\ err # "package not found"

Terminated == pc = "exit"

(* unit k contributed model samples to the output *)
UnitYieldsAudio(k) ==
    \E p \in 1..Len(Flat) : Flat[p].unit = k /\ Flat[p].src = "tts" /\ Flat[p].n > 0

AllUnitsYield == \A k \in 1..Len(segments) : UnitYieldsAudio(k)

(* some unit contributed samples (speech or pause) to the output *)
SomeUnitAudio == \E p \in 1..Len(Flat) : Flat[p].unit # 0 /\ Flat[p].n > 0

NoUnitAudio == \A p \in 1..Len(Flat) : Flat[p].unit = 0

RECURSIVE SectionRuns(_)
SectionRuns(units) ==
    IF units = <<>> THEN <<>>
    ELSE IF Len(units) > 1 /\ units[1].sectionId = units[2].sectionId
         THEN SectionRuns(Tail(units))
         ELSE <<units[1].sectionId>> \o SectionRuns(Tail(units))

SectionIdsOf(ts) == [k \in 1..Len(ts) |-> ts[k].sectionId]

PhasePositions(phase) == {p \in 1..Len(out) : out[p].phase = phase}

(* C1: when every unit yields non-empty audio, the written timestamps hold
   exactly one record per maximal run of units with the same sectionId, in
   document order, each carrying the run's sectionId. *)
C1_OneRecordPerRun ==
    (ts_file.written /\ AllUnitsYield)
        => SectionIdsOf(ts_file.data) = SectionRuns(segments)

(* C2: the timestamp records are non-decreasing and non-overlapping: each
   has startTime <= endTime and starts no earlier than the record before it
   ends, whatever the units did. *)
C2_TimestampsOrdered ==
    \A k \in 1..Len(timestamps) :
        /\ timestamps[k].startTime <= timestamps[k].endTime
        /\ k > 1 => timestamps[k].startTime >= timestamps[k - 1].endTime

C2_Witness ==
    /\ ts_file.written
    /\ Len(ts_file.data) = 2
    /\ gap_ms > 0
    /\ ~AllUnitsYield
    /\ ts_file.data[2].startTime > ts_file.data[1].endTime

(* C3: when no unit produced audio, the run ends with exit code 1 before
   the saving phase: no "saving" or "done" event, no WAV, no timestamps. *)
C3_ZeroAudioIsFatal ==
    (LoopFinished /\ NoUnitAudio) =>
        /\ PhasePositions("saving") = {}
        /\ PhasePositions("done") = {}
        /\ ~wav_file.written
        /\ ~ts_file.written
        /\ Terminated => exit_code = 1 /\ err = "No audio was generated"

(* C4: a failed unit never aborts the run: the units visited so far are
   0..i-1 in order, one "generating" event each; once the model is loaded
   the run ends with exit code 1 only through the zero-audio check after the
   last unit; a finished run in which a unit produced audio emitted "done"
   with exit code 0. *)
C4_FailedUnitNeverAborts ==
    /\ pc # "start" /\ err # "package not found" =>
         /\ Len(out) >= i + 1
         /\ \A k \in 1..i :
               out[k + 1].phase = "generating" /\ out[k + 1].index = k - 1
         /\ Cardinality(PhasePositions("generating")) = i
    /\ Terminated /\ err # "package not found" =>
         /\ i = Len(segments)
         /\ exit_code = 1 => err = "No audio was generated"
    /\ Terminated /\ SomeUnitAudio =>
         /\ exit_code = 0
         /\ out[Len(out)].phase = "done"

(* C5: stdout follows loading, generating*, saving, done: one "loading"
   first; "generating" events before "saving" with strictly increasing index;
   "saving" at most once and after the last unit; "done" at most once, after
   "saving" and after both files are written; never "done" with exit code 1. *)
C5_EventOrder ==
    /\ pc # "start" => out # <<>>
    /\ PhasePositions("loading") = (IF out = <<>> THEN {} ELSE {1})
    /\ \A p \in PhasePositions("generating"), q \in PhasePositions("generating") :
         p < q => out[p].index < out[q].index
    /\ \A p \in PhasePositions("generating"), q \in PhasePositions("saving") : p < q
    /\ Cardinality(PhasePositions("saving")) <= 1
    /\ PhasePositions("saving") # {} => i = Len(segments)
    /\ Cardinality(PhasePositions("done")) <= 1
    /\ \A p \in PhasePositions("done") :
         /\ \E q \in PhasePositions("saving") : q < p
         /\ wav_file.written
         /\ ts_file.written
    /\ exit_code = 1 => PhasePositions("done") = {}

C5_Witness ==
    /\ Terminated
    /\ exit_code = 0
    /\ Len(segments) >= 2
    /\ ~AllUnitsYield
    /\ out[Len(out)].phase = "done"

(* C6: in generate_bark every visited segment whose direction is pause or
   pauses contributed an array that starts with int(sample_rate * 0.5) zero
   samples of pause, also when its text is empty or yields nothing. *)
C6_PauseAddsSilence ==
    gen = "bark" =>
        \A k \in 1..i :
            IsPauseDirection(segments[k].direction) =>
                \E p \in 1..Len(all_audio) :
                    all_audio[p][1] = Run("pause", pause_samples(BARK_SAMPLE_RATE), k)

IsGap(a) == a[1].src = "gap"

SectionOf(a) == segments[a[1].unit].sectionId

(* C7: every gap in all_audio has int(sample_rate * gapMs / 1000) samples
   and sits between the audio of two units of different sections; it is
   never first, never last once the loop is over, never next to another gap;
   two adjacent unit arrays belong to the same section. *)
C7_GapsInterSectionOnly ==
    \A p \in 1..Len(all_audio) :
        /\ IsGap(all_audio[p]) =>
             /\ ArrayLen(all_audio[p]) = gap_samples(sample_rate_of(gen), gap_ms)
             /\ p > 1
             /\ p > 1 => ~IsGap(all_audio[p - 1])
             /\ LoopFinished => p < Len(all_audio)
             /\ (p > 1 /\ p < Len(all_audio)) =>
                  /\ ~IsGap(all_audio[p + 1])
                  /\ ~IsGap(all_audio[p - 1]) /\ ~IsGap(all_audio[p + 1]) =>
                       SectionOf(all_audio[p - 1]) # SectionOf(all_audio[p + 1])
        /\ (p < Len(all_audio) /\ ~IsGap(all_audio[p]) /\ ~IsGap(all_audio[p + 1])) =>
             SectionOf(all_audio[p]) = SectionOf(all_audio[p + 1])

(* what the specification says process_text returns *)
SameIgnoringCase(a, b) ==
    /\ Len(a) = Len(b)
    /\ \A k \in 1..Len(a) :
         \/ a[k] = b[k]
         \/ \E j \in 1..26 : {a[k], b[k]} = {UpperChars[j], LowerChars[j]}

Named(direction, keys) ==
    direction # None /\ \E key \in keys : SameIgnoringCase(direction, key)

DocumentedResult(text, direction) ==
    IF Named(direction, {K_laughs, K_laughter}) THEN T_laughter \o <<" ">> \o text
    ELSE IF Named(direction, {K_sighs, K_sigh}) THEN T_sighs \o <<" ">> \o text
    ELSE IF Named(direction, {K_gasps, K_gasp}) THEN T_gasps \o <<" ">> \o text
    ELSE text

(* C8: process_text returns the mapped token, one space and the text for a
   laughs/laughter/sighs/sigh/gasps/gasp direction in any letter case, and
   the text unchanged for pause/pauses, an unknown direction or none. *)
C8_ProcessText ==
    pt_pc = "returned" => pt_result = DocumentedResult(pt_text, pt_direction)

C8_Witness ==
    /\ pt_pc = "returned"
    /\ pt_direction = AllUpper(K_sigh)
    /\ Len(pt_text) = MaxTextLen
    /\ pt_result = T_sighs \o <<" ">> \o pt_text

(* C9: after every loop iteration current_time times the sample rate is the
   number of samples accumulated in all_audio (current_time is in ticks of
   1/(1000*sample_rate) s, so that is current_time = 1000 * samples). *)
C9_TimeMatchesSamples ==
    pc # "start" => current_time = 1000 * ArrayLen(Flat)

(* C10: a loop iteration whose unit contributes no array (synthesis raised,
   returned nothing, or the text was empty) leaves all_audio, timestamps and
   current_time as they were. *)
C10_SkippedUnitNoEffect ==
    [][(pc = "loop" /\ i' = i + 1
          /\ ~(\E p \in 1..Len(concatenate(all_audio')) :
                  concatenate(all_audio')[p].unit = i + 1))
       => (all_audio' = all_audio /\ timestamps' = timestamps
             /\ current_time' = current_time)]_vars

====
